---- MODULE Spec2Model ----
(***************************************************************************)
(* Resuscope: the resume scoring service (src/app.py) with its embedding   *)
(* similarity engine (src/models/matcher.py) and its oracle clients        *)
(* (src/models/extractor.py, src/models/rewriter.py).                      *)
(*                                                                         *)
(* Numbers.  A similarity score is the float nearest a number with two     *)
(* decimals; it is kept as an integer number of hundredths (1235 is the    *)
(* float 12.35).  A cosine similarity is kept in millionths (123450 is the *)
(* float 0.12345).  The arithmetic of matcher.py:63 and app.py:116-137 is  *)
(* done on binary64 floats, as Python does it: the float nearest each      *)
(* operand, every product and sum rounded to 53 bits (ties to even), and   *)
(* round() applied to the binary value.                                    *)
(***************************************************************************)
EXTENDS Integers, Sequences, FiniteSets, TLC

VARIABLES
    modelName,      \* os.environ has MODEL_NAME
    instance,       \* SemanticModel._instance: 0 is None, k the k-th object
    model,          \* SemanticModel._model: 0 is None, k the k-th loaded model
    constructions,  \* history: number of SentenceTransformer objects built
    lifespan,       \* "pending", "ready", "aborted" or "off" (no lifespan run)
    gi,             \* per caller: position inside SemanticModel.get_instance
    got,            \* per caller: what its last get_instance call gave
    hres,           \* per health worker: the model_ready of its last response
    pc,             \* the event loop: position in the request being handled
    req,            \* the locals of the request being handled
    resp,           \* the response of the last request handled
    sc              \* the arguments and the result of a bare score() call

vars == <<modelName, instance, model, constructions, lifespan, gi, got, hres,
          pc, req, resp, sc>>

(***************************************************************************)
(* Bounds of the model.                                                    *)
(***************************************************************************)
NumHealthWorkers == 1
MaxSkillSets == 2

(***************************************************************************)
(* Program constants.                                                      *)
(***************************************************************************)
MinSkillTextLen == 50
MaxScore == 10000

HealthWorkers == 1..NumHealthWorkers
Loop == 0
Callers == {Loop} \cup HealthWorkers

(***************************************************************************)
(* Python's round(): to the nearest integer, a tie to the even one.        *)
(* RoundHalfEven(n, d) is round(n / d) for an integer n and d > 0.         *)
(***************************************************************************)
RoundHalfEven(n, d) ==
    LET q == n \div d
        r == n % d
    IN  IF 2 * r < d THEN q
        ELSE IF 2 * r > d THEN q + 1
        ELSE IF q % 2 = 0 THEN q ELSE q + 1

Max(a, b) == IF a >= b THEN a ELSE b
Min(a, b) == IF a <= b THEN a ELSE b

(***************************************************************************)
(* Python's float: an IEEE 754 binary64 number, kept exactly as            *)
(* sign * man * 2^exp with man a natural number below 2^53.  man is a      *)
(* sequence of 13-bit limbs, the least significant first, and <<>> is 0.   *)
(* Every operation computes the exact result and rounds it to 53 bits,     *)
(* a tie to the even mantissa, as the hardware does.  The scores stay far  *)
(* from the subnormal and the overflow range.                              *)
(***************************************************************************)
Base == 2^13
Pow2 == [k \in 0..13 |-> 2^k]

RECURSIVE BigOfInt(_)
BigOfInt(n) == IF n = 0 THEN <<>> ELSE <<n % Base>> \o BigOfInt(n \div Base)

RECURSIVE BigToInt(_)
BigToInt(a) == IF a = <<>> THEN 0 ELSE Head(a) + Base * BigToInt(Tail(a))

RECURSIVE BigTrim(_)
BigTrim(a) ==
    IF Len(a) = 0 THEN <<>>
    ELSE IF a[Len(a)] = 0 THEN BigTrim(SubSeq(a, 1, Len(a) - 1))
    ELSE a

RECURSIVE BigCarry(_, _)
BigCarry(a, c) ==
    IF Len(a) = 0 THEN BigOfInt(c)
    ELSE LET v == Head(a) + c IN <<v % Base>> \o BigCarry(Tail(a), v \div Base)

Limb(a, i) == IF i >= 1 /\ i <= Len(a) THEN a[i] ELSE 0

BigAdd(a, b) ==
    IF a = <<>> THEN b
    ELSE IF b = <<>> THEN a
    ELSE BigCarry([i \in 1..Max(Len(a), Len(b)) |-> Limb(a, i) + Limb(b, i)], 0)

RECURSIVE BigBorrow(_, _, _)
BigBorrow(a, b, c) ==
    IF a = <<>> THEN <<>>
    ELSE LET v == Head(a) - (IF b = <<>> THEN 0 ELSE Head(b)) - c IN
         <<v % Base>> \o BigBorrow(Tail(a), IF b = <<>> THEN <<>> ELSE Tail(b),
                                   IF v < 0 THEN 1 ELSE 0)

\* a - b for a >= b
BigSub(a, b) == BigTrim(BigBorrow(a, b, 0))

\* -1, 0 or 1 as a is below, equal to or above b
BigCmp(a, b) ==
    IF Len(a) # Len(b) THEN (IF Len(a) < Len(b) THEN -1 ELSE 1)
    ELSE LET d == {i \in 1..Len(a) : a[i] # b[i]} IN
         IF d = {} THEN 0
         ELSE LET i == CHOOSE k \in d : \A j \in d : j <= k IN
              IF a[i] < b[i] THEN -1 ELSE 1

\* a * k for a natural number k up to 2^17
BigMulSmall(a, k) ==
    IF a = <<>> \/ k = 0 THEN <<>>
    ELSE BigCarry([i \in 1..Len(a) |-> a[i] * k], 0)

\* the sum of a[i] * b[k + 1 - i] over the i from lo to hi
RECURSIVE BigColumn(_, _, _, _, _)
BigColumn(a, b, k, lo, hi) ==
    IF lo > hi THEN 0
    ELSE a[lo] * b[k + 1 - lo] + BigColumn(a, b, k, lo + 1, hi)

\* a * b, for numbers of up to 32 limbs
BigMul(a, b) ==
    IF a = <<>> \/ b = <<>> THEN <<>>
    ELSE BigCarry([k \in 1..(Len(a) + Len(b) - 1) |->
                      BigColumn(a, b, k, Max(1, k + 1 - Len(b)), Min(k, Len(a)))], 0)

\* quotient (with leading zero limbs) and remainder of a by d, d up to 2^17
RECURSIVE BigDivSmall(_, _)
BigDivSmall(a, d) ==
    IF a = <<>> THEN [q |-> <<>>, r |-> 0]
    ELSE LET hi == BigDivSmall(Tail(a), d)
             v == hi.r * Base + Head(a)
         IN  [q |-> <<v \div d>> \o hi.q, r |-> v % d]

Zeros(k) == [i \in 1..k |-> 0]

\* a * 2^k
BigShl(a, k) ==
    IF a = <<>> \/ k = 0 THEN a
    ELSE LET w == k \div 13
             b == k % 13
         IN  BigTrim([i \in 1..(Len(a) + w + 1) |->
                        IF i <= w THEN 0
                        ELSE ((Limb(a, i - w) * Pow2[b]) % Base)
                             + (Limb(a, i - w - 1) \div Pow2[13 - b])])

\* a \div 2^k
BigShr(a, k) ==
    LET w == k \div 13
        b == k % 13
    IN  IF w >= Len(a) THEN <<>>
        ELSE BigTrim([i \in 1..(Len(a) - w) |->
                        (a[i + w] \div Pow2[b])
                        + ((Limb(a, i + w + 1) % Pow2[b]) * Pow2[13 - b])])

RECURSIVE BitsOf(_)
BitsOf(v) == IF v = 0 THEN 0 ELSE 1 + BitsOf(v \div 2)

\* the number of bits of a
BigBitLen(a) == IF a = <<>> THEN 0 ELSE 13 * (Len(a) - 1) + BitsOf(a[Len(a)])

\* bit k of a (bit 0 is the least significant)
BigBit(a, k) == (Limb(a, k \div 13 + 1) \div Pow2[k % 13]) % 2

\* a has a bit set below bit k
BigLowBits(a, k) ==
    \/ \E i \in 1..Min(k \div 13, Len(a)) : a[i] # 0
    \/ Limb(a, k \div 13 + 1) % Pow2[k % 13] # 0

\* (m + f) / 2^d rounded to the nearest natural number, a tie to the even
\* one, for d >= 1; f is a fraction in [0, 1) that is not zero when sticky
RoundShift(m, d, sticky) ==
    LET q == BigShr(m, d)
        odd == q # <<>> /\ q[1] % 2 = 1
    IN  IF BigBit(m, d - 1) = 1 /\ (sticky \/ odd \/ BigLowBits(m, d - 1))
        THEN BigAdd(q, <<1>>)
        ELSE q

FlZero == [neg |-> FALSE, man |-> <<>>, exp |-> 0]

\* the float nearest to (m + f) * 2^e
FlRound(neg, m, e, sticky) ==
    IF m = <<>> THEN FlZero
    ELSE LET len == BigBitLen(m) IN
         IF len <= 53 THEN [neg |-> neg, man |-> m, exp |-> e]
         ELSE [neg |-> neg, man |-> RoundShift(m, len - 53, sticky), exp |-> e + (len - 53)]

\* float(n) for an int n
FlOfInt(n) == [neg |-> n < 0, man |-> BigOfInt(IF n < 0 THEN -n ELSE n), exp |-> 0]

\* a \div 10^digits, and whether the division left a remainder
RECURSIVE BigDivPow10(_, _)
BigDivPow10(a, digits) ==
    IF digits = 0 THEN [q |-> a, sticky |-> FALSE]
    ELSE IF digits <= 4
    THEN LET x == BigDivSmall(a, 10^digits) IN [q |-> BigTrim(x.q), sticky |-> x.r # 0]
    ELSE LET x == BigDivSmall(a, 10^4)
             y == BigDivPow10(BigTrim(x.q), digits - 4)
         IN  [q |-> y.q, sticky |-> (x.r # 0 \/ y.sticky)]

\* the float nearest to n / 10^digits, for |n| < 2^31 and digits <= 6: the
\* float of a decimal literal, and the float round(x, 2) returns for n
\* hundredths.  The quotient of n * 2^78 has more than 53 bits.
FlOfDecimal(n, digits) ==
    IF n = 0 THEN FlZero
    ELSE LET x == BigDivPow10(Zeros(6) \o BigOfInt(IF n < 0 THEN -n ELSE n), digits) IN
         FlRound(n < 0, x.q, -78, x.sticky)

\* the float literals of app.py and matcher.py
Fl100 == FlOfInt(100)
Fl075 == FlOfDecimal(75, 2)
Fl025 == FlOfDecimal(25, 2)
Fl05 == FlOfDecimal(5, 1)
Fl03 == FlOfDecimal(3, 1)
Fl01 == FlOfDecimal(1, 1)

\* x * y
FlMul(x, y) ==
    IF x.man = <<>> \/ y.man = <<>> THEN FlZero
    ELSE FlRound(x.neg # y.neg, BigMul(x.man, y.man), x.exp + y.exp, FALSE)

\* x + y
FlAdd(x, y) ==
    IF x.man = <<>> THEN y
    ELSE IF y.man = <<>> THEN x
    ELSE LET e == Min(x.exp, y.exp)
             mx == BigShl(x.man, x.exp - e)
             my == BigShl(y.man, y.exp - e)
             c == BigCmp(mx, my)
         IN  IF x.neg = y.neg THEN FlRound(x.neg, BigAdd(mx, my), e, FALSE)
             ELSE IF c = 0 THEN FlZero
             ELSE IF c > 0 THEN FlRound(x.neg, BigSub(mx, my), e, FALSE)
             ELSE FlRound(y.neg, BigSub(my, mx), e, FALSE)

\* round(x): the nearest int of the exact value of x, a tie to the even one
PyRound(x) ==
    IF x.man = <<>> THEN 0
    ELSE LET n == IF x.exp >= 0 THEN BigToInt(BigShl(x.man, x.exp))
                  ELSE BigToInt(RoundShift(x.man, -x.exp, FALSE))
         IN  IF x.neg THEN -n ELSE n

\* round(x, 2), in hundredths: the exact value of x rounded to two decimals
PyRound2(x) == PyRound([x EXCEPT !.man = BigMulSmall(@, 100)])

(***************************************************************************)
(* Arguments of score(): a str (kept by its length) or a list of phrases.  *)
(***************************************************************************)
Str(n) == [kind |-> "str", len |-> n, items |-> <<>>]
List(s) == [kind |-> "list", len |-> Len(s), items |-> s]

(***************************************************************************)
(* What the embedding library does in one score() call: where it fails     *)
(* ("none", "encode": its first encode call, "encode_2": its second        *)
(* encode call, "cos_sim"), with which exception, and the cosine           *)
(* similarity it gives, in millionths.  Two str arguments are encoded by   *)
(* one call, two lists by two calls.                                       *)
(***************************************************************************)
Sims == {-250000, 123450, 1000100}
EncOutcomes ==
    [at : {"none"}, exc : {"none"}, sim : Sims]
    \cup [at : {"encode", "encode_2"}, exc : {"RuntimeError", "ValueError"}, sim : {0}]
    \cup [at : {"cos_sim"}, exc : {"ValueError"}, sim : {0}]

Return(v, n) == [kind |-> "return", value |-> v, exc |-> "none", encodes |-> n]
Raise(e, n) == [kind |-> "raise", value |-> 0, exc |-> e, encodes |-> n]

(***************************************************************************)
(* The try block of SemanticModel.score, lines 41 to 64.  The score is     *)
(* round(similarity * 100, 2) clamped to [0.0, 100.0]: the float of the    *)
(* similarity times 100.0, rounded to two decimals; a score is kept as its *)
(* number of hundredths.  encodes counts the calls of model.encode.        *)
(***************************************************************************)
\* line 63
ScoreValue(similarity) == PyRound2(FlMul(FlOfDecimal(similarity, 6), Fl100))

\* a score without the clamp of line 64
ClampNone(score_value) == score_value

Clamp(score_value) == Max(0, Min(MaxScore, score_value))

\* a score that encodes the two lists before it tests them for emptiness
ScoreTryEncodeFirst(mdl, job_text, resume_text, enc) ==
    IF mdl = 0 THEN Raise("RuntimeError", 0)
    ELSE IF job_text.kind = "str" /\ resume_text.kind = "str" THEN
        IF enc.at = "encode" THEN Raise(enc.exc, 1)
        ELSE IF enc.at = "cos_sim" THEN Raise(enc.exc, 1)
        ELSE Return(Clamp(ScoreValue(enc.sim)), 1)
    ELSE IF job_text.kind = "list" /\ resume_text.kind = "list" THEN
        IF enc.at = "encode" THEN Raise(enc.exc, 1)
        ELSE IF enc.at = "encode_2" THEN Raise(enc.exc, 2)
        ELSE IF job_text.len = 0 \/ resume_text.len = 0 THEN Return(0, 2)
        ELSE IF enc.at = "cos_sim" THEN Raise(enc.exc, 2)
        ELSE Return(Clamp(ScoreValue(enc.sim)), 2)
    ELSE Return(0, 0)

ScoreTry(mdl, job_text, resume_text, enc) ==
    IF mdl = 0 THEN Raise("RuntimeError", 0)
    ELSE IF job_text.kind = "str" /\ resume_text.kind = "str" THEN
        IF enc.at = "encode" THEN Raise(enc.exc, 1)
        ELSE IF enc.at = "cos_sim" THEN Raise(enc.exc, 1)
        ELSE Return(Clamp(ScoreValue(enc.sim)), 1)
    ELSE IF job_text.kind = "list" /\ resume_text.kind = "list" THEN
        IF job_text.len = 0 \/ resume_text.len = 0 THEN Return(0, 0)
        ELSE IF enc.at = "encode" THEN Raise(enc.exc, 1)
        ELSE IF enc.at = "encode_2" THEN Raise(enc.exc, 2)
        ELSE IF enc.at = "cos_sim" THEN Raise(enc.exc, 2)
        ELSE Return(Clamp(ScoreValue(enc.sim)), 2)
    ELSE Return(0, 0)

(***************************************************************************)
(* The except clauses of SemanticModel.score, lines 66 to 71: RuntimeError *)
(* and every other Exception give 0.0.                                     *)
(***************************************************************************)
\* a score whose only except clause is that of RuntimeError
ScoreExceptRuntimeOnly(r) ==
    IF r.kind = "raise" /\ r.exc = "RuntimeError" THEN Return(0, r.encodes) ELSE r

ScoreExcept(r) ==
    IF r.kind = "raise" THEN Return(0, r.encodes) ELSE r

Score(mdl, job_text, resume_text, enc) ==
    ScoreExcept(ScoreTry(mdl, job_text, resume_text, enc))

(***************************************************************************)
(* A Python dict is a record; a missing value is NoDict.                   *)
(***************************************************************************)
NoDict == [none |-> TRUE]

\* An exception that leaves a function is the value Raised.
Raised == [raised |-> TRUE]
IsRaised(value) == "raised" \in DOMAIN value

(***************************************************************************)
(* The answers the oracle can give, one set per declared schema.           *)
(***************************************************************************)
Categories == {"TECHNICAL", "SOFT", "technical"}
SkillLists == {<<>>, <<"python">>, <<"sql">>}
SkillCategory == [category : Categories, skills : SkillLists]
CandidateSkills ==
    [skill_sets : UNION {[1..n -> SkillCategory] : n \in 0..MaxSkillSets}]
\* the answers of the skill-set extractor in the runs of the service
ResumeSkills ==
    {[skill_sets |-> <<>>],
     [skill_sets |-> <<[category |-> "TECHNICAL", skills |-> <<"python">>],
                       [category |-> "SOFT", skills |-> <<"sql">>]>>],
     [skill_sets |-> <<[category |-> "TECHNICAL", skills |-> <<"python">>],
                       [category |-> "TECHNICAL", skills |-> <<"sql">>]>>],
     [skill_sets |-> <<[category |-> "technical", skills |-> <<"python">>],
                       [category |-> "SOFT", skills |-> <<>>]>>]}
RequiredSkillsResponse ==
    [technical_skills : {<<>>, <<"python", "sql">>},
     soft_skills : {<<>>, <<"teamwork">>}]
OracleScores == {-50, 80, 150}
ContentScoreResponse ==
    [score : OracleScores, reasoning : {"why"}, missing_keywords : {<<"aws">>},
     improvement_tips : {<<"t1", "t2", "t3">>}]
StructureScoreResponse == [score : OracleScores, reasoning : {"why"}]
SkillOptimizationResponse == [skills_to_add : {<<"docker">>}]
FeedbackResponse == [key_points : {<<"k1", "k2", "k3", "k4">>}, has_issues : BOOLEAN]
ProfessionalSummaryResponse == [key_points : {<<"s1", "s2", "s3", "s4">>}]

(***************************************************************************)
(* The fields each schema declares.                                        *)
(***************************************************************************)
SchemaFields ==
    [extract_all_skills |-> {"skill_sets"},
     get_required_skills |-> {"technical_skills", "soft_skills"},
     get_content_score |-> {"score", "reasoning", "missing_keywords", "improvement_tips"},
     get_structure_score |-> {"score", "reasoning"},
     optimize_skills_section |-> {"skills_to_add"},
     optimize_structure |-> {"key_points", "has_issues"},
     check_content |-> {"key_points", "has_issues"},
     check_tone_and_style |-> {"key_points", "has_issues"},
     get_professional_summary_suggestions |-> {"key_points"}]

OracleClients == DOMAIN SchemaFields

(***************************************************************************)
(* The oracle clients.  ok says whether chain.invoke returned; ans is the  *)
(* parsed answer when it did.  Each returns the dict the code returns.     *)
(***************************************************************************)
TooShortNever(text) == FALSE

TooShort(text) == text < MinSkillTextLen

extract_all_skills(text, ok, ans) ==
    IF TooShort(text)
    THEN [skill_sets |-> <<>>, error |-> "Resume text is too short for skill extraction."]
    ELSE IF ok THEN ans
    ELSE [skill_sets |-> <<>>, error |-> "AI extraction failed"]

get_required_skills(ok, ans) ==
    IF ok THEN ans
    ELSE [technical_skills |-> <<>>, soft_skills |-> <<>>,
          error |-> "Error generating skills"]

\* a client without its try/except
get_content_score_uncaught(ok, ans) == IF ok THEN ans ELSE Raised

get_content_score(ok, ans) ==
    IF ok THEN ans
    ELSE [score |-> 0, reasoning |-> "Failed to analyze resume",
          missing_keywords |-> <<>>, improvement_tips |-> <<>>]

get_structure_score(ok, ans) ==
    IF ok THEN ans
    ELSE [score |-> 0, reasoning |-> "Error during structure scoring"]

optimize_skills_section(ok, ans) ==
    IF ok THEN ans
    ELSE [skills_to_add |-> <<>>, error |-> "Error optimizing skills"]

optimize_structure(ok, ans) ==
    IF ok THEN ans
    ELSE [key_points |-> <<"Error optimizing structure">>, has_issues |-> TRUE]

check_content(ok, ans) ==
    IF ok THEN ans
    ELSE [key_points |-> <<"Error checking content">>, has_issues |-> TRUE]

check_tone_and_style(ok, ans) ==
    IF ok THEN ans
    ELSE [key_points |-> <<"Error checking tone/style">>, has_issues |-> TRUE]

get_professional_summary_suggestions(ok, ans) ==
    IF ok THEN ans
    ELSE [options |-> <<>>, error |-> "Error generating summary"]

(***************************************************************************)
(* analyze_resume, lines 106 to 110: the skill lists of the entries with   *)
(* the tag, in order, and the first of them when it is not empty.          *)
(***************************************************************************)
RECURSIVE SkillsOf(_, _)
SkillsOf(skill_sets, tag) ==
    IF skill_sets = <<>> THEN <<>>
    ELSE IF Head(skill_sets).category = tag
         THEN <<Head(skill_sets).skills>> \o SkillsOf(Tail(skill_sets), tag)
         ELSE SkillsOf(Tail(skill_sets), tag)

\* the last matching entry instead of the first
LastOrEmpty(res) ==
    IF Len(res) > 0 /\ Len(res[Len(res)]) > 0 THEN res[Len(res)] ELSE <<>>

FirstOrEmpty(res) ==
    IF Len(res) > 0 /\ Len(res[1]) > 0 THEN res[1] ELSE <<>>

(***************************************************************************)
(* analyze_resume, lines 116 and 127, in float arithmetic.  tech_score,    *)
(* soft_score and ats_match_score are the floats score returned, given by  *)
(* their hundredths; skill_match_score is a float; the two oracle scores   *)
(* are ints.                                                               *)
(***************************************************************************)
SkillMatchScore(tech_score, soft_score) ==
    FlAdd(FlMul(Fl075, FlOfDecimal(tech_score, 2)),
          FlMul(Fl025, FlOfDecimal(soft_score, 2)))

\* round(ats * 0.5 + skill_match * 0.3 + content * 0.1 + structure * 0.1),
\* the first two given as floats
Weighted(ats, skill_match, content_score, structure_score) ==
    PyRound(FlAdd(FlAdd(FlAdd(FlMul(ats, Fl05), FlMul(skill_match, Fl03)),
                        FlMul(FlOfInt(content_score), Fl01)),
                  FlMul(FlOfInt(structure_score), Fl01)))

\* the weighted sum of the rounded component scores
OverallScoreOfRounded(ats_match_score, skill_match_score, content_score, structure_score) ==
    Weighted(FlOfInt(RoundHalfEven(ats_match_score, 100)),
             FlOfInt(PyRound(skill_match_score)), content_score, structure_score)

OverallScore(ats_match_score, skill_match_score, content_score, structure_score) ==
    Weighted(FlOfDecimal(ats_match_score, 2), skill_match_score,
             content_score, structure_score)

(***************************************************************************)
(* process_uploaded_file and the extract_text_* functions: the extension   *)
(* test, and the stripped text (kept by its length), the empty text when   *)
(* the parsing library raises.                                             *)
(***************************************************************************)
Extensions == {"pdf", "docx", "txt"}
TextLens == {0, 20, 60}
SupportedAll(ext) == TRUE

Supported(ext) == ext = "pdf" \/ ext = "docx"
extract_text(ok, n) == IF ok THEN n ELSE 0

(***************************************************************************)
(* State after the module is imported.                                     *)
(***************************************************************************)
Endpoints == {"analyze_resume", "optimize_skills", "optimize_structure_feedback",
              "optimize_content_feedback", "optimize_tone_style_feedback"}

ReqInit ==
    [endpoint |-> "none", ext |-> "none", extracted |-> FALSE, extract_ok |-> FALSE,
     text |-> 0,
     scorer |-> 0, res_skill |-> NoDict, req_skill |-> NoDict,
     req_tech_skill |-> <<>>, req_soft_skill |-> <<>>,
     tech_input |-> <<>>, soft_input |-> <<>>,
     tech_score |-> 0, soft_score |-> 0, skill_match_score |-> FlZero,
     ats_match_score |-> 0,
     content_analysis |-> NoDict, structure_analysis |-> NoDict,
     content_score |-> 0, structure_score |-> 0, overall_score |-> 0,
     summary_score |-> 0, improvements |-> NoDict, feedback |-> NoDict,
     called |-> {}, failed |-> {}, score_calls |-> 0]

NoResp == [status |-> 0, body |-> NoDict]
NoCall == [ok |-> FALSE, inst |-> 0, exc |-> "none"]
NoScore == [mdl |-> 0, a |-> Str(0), b |-> Str(0), enc |-> [at |-> "none", exc |-> "none", sim |-> 0],
            out |-> Return(0, 0), done |-> FALSE]

InitCommon ==
    /\ modelName \in BOOLEAN
    /\ instance = 0
    /\ model = 0
    /\ constructions = 0
    /\ gi = [t \in Callers |-> "idle"]
    /\ got = [t \in Callers |-> NoCall]
    /\ hres = [t \in HealthWorkers |-> "none"]
    /\ req = ReqInit
    /\ resp = NoResp
    /\ sc = NoScore

Init ==
    /\ InitCommon
    /\ lifespan = "pending"
    /\ pc = "startup"

Serving == lifespan \in {"ready", "off"}

(***************************************************************************)
(* SemanticModel.get_instance and SemanticModel.__init__, one action per   *)
(* line at which another thread can run in between.                        *)
(***************************************************************************)
GiRaise(t, exc) ==
    /\ gi' = [gi EXCEPT ![t] = "done"]
    /\ got' = [got EXCEPT ![t] = [ok |-> FALSE, inst |-> 0, exc |-> exc]]

\* lines 30 to 33: the test of _instance and of MODEL_NAME
GetInstanceCheck(t) ==
    /\ gi[t] = "check"
    /\ IF instance # 0
       THEN /\ gi' = [gi EXCEPT ![t] = "done"]
            /\ got' = [got EXCEPT ![t] = [ok |-> TRUE, inst |-> instance, exc |-> "none"]]
       ELSE IF ~modelName THEN GiRaise(t, "EnvironmentError")
       ELSE /\ gi' = [gi EXCEPT ![t] = "init"]
            /\ got' = got
    /\ UNCHANGED <<modelName, instance, model, constructions, lifespan, hres, pc, req, resp, sc>>

\* lines 14 and 15: the singleton test of __init__
InitSingletonCheck(t) ==
    /\ gi[t] = "init"
    /\ IF instance # 0 THEN GiRaise(t, "Exception")
       ELSE /\ gi' = [gi EXCEPT ![t] = "load"]
            /\ got' = got
    /\ UNCHANGED <<modelName, instance, model, constructions, lifespan, hres, pc, req, resp, sc>>

\* an __init__ that keeps the object when the load failed
InitLoadModelKept(t) ==
    /\ gi[t] = "load"
    /\ \E loaded \in BOOLEAN :
        /\ constructions' = constructions + 1
        /\ model' = IF loaded THEN constructions + 1 ELSE model
        /\ gi' = [gi EXCEPT ![t] = "assign"]
        /\ got' = [got EXCEPT ![t] = [ok |-> FALSE, inst |-> constructions + 1, exc |-> "none"]]
    /\ UNCHANGED <<modelName, instance, lifespan, hres, pc, req, resp, sc>>

\* lines 20 to 26: SentenceTransformer(...) is built and stored in _model, or raises
InitLoadModel(t) ==
    /\ gi[t] = "load"
    /\ \E loaded \in BOOLEAN :
        IF loaded
        THEN /\ constructions' = constructions + 1
             /\ model' = constructions + 1
             /\ gi' = [gi EXCEPT ![t] = "assign"]
             /\ got' = [got EXCEPT ![t] = [ok |-> FALSE, inst |-> constructions + 1, exc |-> "none"]]
        ELSE /\ GiRaise(t, "RuntimeError")
             /\ UNCHANGED <<model, constructions>>
    /\ UNCHANGED <<modelName, instance, lifespan, hres, pc, req, resp, sc>>

\* line 35: the new object is stored in _instance
GetInstanceAssign(t) ==
    /\ gi[t] = "assign"
    /\ instance' = got[t].inst
    /\ gi' = [gi EXCEPT ![t] = "return"]
    /\ UNCHANGED <<modelName, model, constructions, lifespan, got, hres, pc, req, resp, sc>>

\* line 37: _instance is read again and returned
GetInstanceReturn(t) ==
    /\ gi[t] = "return"
    /\ gi' = [gi EXCEPT ![t] = "done"]
    /\ got' = [got EXCEPT ![t] = [ok |-> TRUE, inst |-> instance, exc |-> "none"]]
    /\ UNCHANGED <<modelName, instance, model, constructions, lifespan, hres, pc, req, resp, sc>>

GetInstanceStep(t) ==
    \/ GetInstanceCheck(t)
    \/ InitSingletonCheck(t)
    \/ InitLoadModel(t)
    \/ GetInstanceAssign(t)
    \/ GetInstanceReturn(t)

(***************************************************************************)
(* lifespan, lines 27 to 41.                                               *)
(***************************************************************************)
LifespanStartup ==
    /\ pc = "startup"
    /\ gi[Loop] = "idle"
    /\ gi' = [gi EXCEPT ![Loop] = "check"]
    /\ pc' = "startup_load"
    /\ UNCHANGED <<modelName, instance, model, constructions, lifespan, got, hres, req, resp, sc>>

\* a start that logs the failure and serves all the same
LifespanYieldLenient ==
    /\ pc = "startup_load"
    /\ gi[Loop] = "done"
    /\ gi' = [gi EXCEPT ![Loop] = "idle"]
    /\ lifespan' = "ready"
    /\ pc' = "idle"
    /\ UNCHANGED <<modelName, instance, model, constructions, got, hres, req, resp, sc>>

LifespanYield ==
    /\ pc = "startup_load"
    /\ gi[Loop] = "done"
    /\ gi' = [gi EXCEPT ![Loop] = "idle"]
    /\ IF got[Loop].ok
       THEN lifespan' = "ready" /\ pc' = "idle"
       ELSE lifespan' = "aborted" /\ pc' = "exit"
    /\ UNCHANGED <<modelName, instance, model, constructions, got, hres, req, resp, sc>>

(***************************************************************************)
(* health_check, lines 81 to 89, run by a worker thread.                   *)
(***************************************************************************)
HealthCheck(t) ==
    /\ Serving
    /\ gi[t] = "idle"
    /\ gi' = [gi EXCEPT ![t] = "check"]
    /\ hres' = [hres EXCEPT ![t] = "none"]
    /\ UNCHANGED <<modelName, instance, model, constructions, lifespan, got, pc, req, resp, sc>>

HealthCheckReturn(t) ==
    /\ gi[t] = "done"
    /\ gi' = [gi EXCEPT ![t] = "idle"]
    /\ hres' = [hres EXCEPT ![t] = IF got[t].ok THEN "ready" ELSE "not_ready"]
    /\ UNCHANGED <<modelName, instance, model, constructions, lifespan, got, pc, req, resp, sc>>

(***************************************************************************)
(* A request on the event loop.  The handlers are async functions without  *)
(* an await, so the loop runs one request at a time, to its response.      *)
(***************************************************************************)
Respond(status, body) ==
    /\ resp' = [status |-> status, body |-> body]
    /\ pc' = "idle"

HandlerError == Respond(500, [detail |-> "Internal server error"])

FirstStep(endpoint) ==
    CASE endpoint = "analyze_resume" -> "ar_get_instance"
      [] endpoint = "optimize_skills" -> "os_extract"
      [] OTHER -> "feedback"

Receive ==
    /\ Serving
    /\ pc = "idle"
    /\ \E endpoint \in Endpoints, ext \in Extensions :
        req' = [ReqInit EXCEPT !.endpoint = endpoint, !.ext = ext]
    /\ resp' = NoResp
    /\ pc' = "file"
    /\ UNCHANGED <<modelName, instance, model, constructions, lifespan, gi, got, hres, sc>>

\* line 66: not text or len(text.strip()) == 0, on the stripped text the
\* extractors return
NoTextAccepted(text) == FALSE

NoText(text) == text = 0

\* process_uploaded_file, lines 56 to 74
process_uploaded_file ==
    /\ pc = "file"
    /\ IF ~Supported(req.ext)
       THEN /\ Respond(400, [detail |-> "Unsupported File Format"])
            /\ req' = req
       ELSE \E ok \in BOOLEAN, n \in TextLens :
            LET text == extract_text(ok, n) IN
            /\ req' = [req EXCEPT !.extracted = TRUE, !.extract_ok = ok, !.text = text]
            /\ IF NoText(text)
               THEN Respond(400, [detail |-> "Could not extract text"])
               ELSE resp' = resp /\ pc' = FirstStep(req.endpoint)
    /\ UNCHANGED <<modelName, instance, model, constructions, lifespan, gi, got, hres, sc>>

\* The locals after one oracle client was called: called and failed record
\* the clients whose chain.invoke ran and raised.
AfterCall(r, client, ok) ==
    [r EXCEPT !.called = @ \cup {client},
              !.failed = IF ok THEN @ ELSE @ \cup {client}]

\* value = client(...) inside a handler's try block: an exception leaving the
\* client reaches the handler's except clause.
OracleCall(r, value, field, next) ==
    IF IsRaised(value)
    THEN /\ HandlerError
         /\ req' = r
    ELSE /\ req' = [r EXCEPT ![field] = value]
         /\ pc' = next
         /\ resp' = resp

\* extract_all_skills(resume_text) in a handler
ExtractSkillsCall(next) ==
    \E ok \in BOOLEAN, ans \in ResumeSkills :
        OracleCall(IF TooShort(req.text) THEN req
                   ELSE AfterCall(req, "extract_all_skills", ok),
                   extract_all_skills(req.text, ok, ans), "res_skill", next)

\* get_required_skills(job_description) in a handler
RequiredSkillsCall(next) ==
    \E ok \in BOOLEAN, ans \in RequiredSkillsResponse :
        OracleCall(AfterCall(req, "get_required_skills", ok),
                   get_required_skills(ok, ans), "req_skill", next)

(***************************************************************************)
(* analyze_resume, lines 97 to 147.                                        *)
(***************************************************************************)
AnalyzeGetInstance ==
    /\ pc = "ar_get_instance"
    /\ gi[Loop] = "idle"
    /\ gi' = [gi EXCEPT ![Loop] = "check"]
    /\ pc' = "ar_got_instance"
    /\ UNCHANGED <<modelName, instance, model, constructions, lifespan, got, hres, req, resp, sc>>

\* line 98 returns, or raises into the except clause of lines 145 to 147
AnalyzeGotInstance ==
    /\ pc = "ar_got_instance"
    /\ gi[Loop] = "done"
    /\ gi' = [gi EXCEPT ![Loop] = "idle"]
    /\ IF got[Loop].ok
       THEN /\ req' = [req EXCEPT !.scorer = got[Loop].inst]
            /\ pc' = "ar_extract"
            /\ resp' = resp
       ELSE /\ HandlerError
            /\ req' = req
    /\ UNCHANGED <<modelName, instance, model, constructions, lifespan, got, hres, sc>>

\* line 100
AnalyzeExtractSkills ==
    /\ pc = "ar_extract"
    /\ ExtractSkillsCall("ar_required")
    /\ UNCHANGED <<modelName, instance, model, constructions, lifespan, gi, got, hres, sc>>

\* line 101
AnalyzeRequiredSkills ==
    /\ pc = "ar_required"
    /\ RequiredSkillsCall("ar_partition")
    /\ UNCHANGED <<modelName, instance, model, constructions, lifespan, gi, got, hres, sc>>

\* lines 103 to 110
AnalyzePartition ==
    /\ pc = "ar_partition"
    /\ req' = [req EXCEPT
                !.req_tech_skill = req.req_skill.technical_skills,
                !.req_soft_skill = req.req_skill.soft_skills,
                !.tech_input = FirstOrEmpty(SkillsOf(req.res_skill.skill_sets, "TECHNICAL")),
                !.soft_input = FirstOrEmpty(SkillsOf(req.res_skill.skill_sets, "SOFT"))]
    /\ pc' = "ar_tech_score"
    /\ UNCHANGED <<modelName, instance, model, constructions, lifespan, gi, got, hres, resp, sc>>

\* One semantic_scorer.score call of the handler: an exception leaving it
\* reaches the handler's except clause, lines 145 to 147.
ScoreCall(a, b, field, next) ==
    \E enc \in EncOutcomes :
        LET out == Score(model, a, b, enc) IN
        IF out.kind = "raise"
        THEN /\ HandlerError
             /\ req' = [req EXCEPT !.score_calls = @ + 1]
        ELSE /\ req' = [req EXCEPT ![field] = out.value, !.score_calls = @ + 1]
             /\ pc' = next
             /\ resp' = resp

\* line 113
AnalyzeTechScore ==
    /\ pc = "ar_tech_score"
    /\ ScoreCall(List(req.req_tech_skill), List(req.tech_input), "tech_score", "ar_soft_score")
    /\ UNCHANGED <<modelName, instance, model, constructions, lifespan, gi, got, hres, sc>>

\* line 114
AnalyzeSoftScore ==
    /\ pc = "ar_soft_score"
    /\ ScoreCall(List(req.req_soft_skill), List(req.soft_input), "soft_score", "ar_skill_match")
    /\ UNCHANGED <<modelName, instance, model, constructions, lifespan, gi, got, hres, sc>>

\* line 116
AnalyzeSkillMatch ==
    /\ pc = "ar_skill_match"
    /\ req' = [req EXCEPT !.skill_match_score = SkillMatchScore(req.tech_score, req.soft_score)]
    /\ pc' = "ar_ats_score"
    /\ UNCHANGED <<modelName, instance, model, constructions, lifespan, gi, got, hres, resp, sc>>

\* line 118: job_description and resume_text are both str
AnalyzeAtsScore ==
    /\ pc = "ar_ats_score"
    /\ \E job_description \in TextLens :
        ScoreCall(Str(job_description), Str(req.text), "ats_match_score", "ar_content")
    /\ UNCHANGED <<modelName, instance, model, constructions, lifespan, gi, got, hres, sc>>

\* line 120
AnalyzeContentScore ==
    /\ pc = "ar_content"
    /\ \E ok \in BOOLEAN, ans \in ContentScoreResponse :
        OracleCall(AfterCall(req, "get_content_score", ok),
                   get_content_score(ok, ans), "content_analysis", "ar_structure")
    /\ UNCHANGED <<modelName, instance, model, constructions, lifespan, gi, got, hres, sc>>

\* line 121
AnalyzeStructureScore ==
    /\ pc = "ar_structure"
    /\ \E ok \in BOOLEAN, ans \in StructureScoreResponse :
        OracleCall(AfterCall(req, "get_structure_score", ok),
                   get_structure_score(ok, ans), "structure_analysis", "ar_quality")
    /\ UNCHANGED <<modelName, instance, model, constructions, lifespan, gi, got, hres, sc>>

\* lines 123 and 124: analysis.get('score', 0)
GetScore(analysis) == IF "score" \in DOMAIN analysis THEN analysis.score ELSE 0

AnalyzeQualityScores ==
    /\ pc = "ar_quality"
    /\ req' = [req EXCEPT !.content_score = GetScore(req.content_analysis),
                          !.structure_score = GetScore(req.structure_analysis)]
    /\ pc' = "ar_overall"
    /\ UNCHANGED <<modelName, instance, model, constructions, lifespan, gi, got, hres, resp, sc>>

\* line 127
AnalyzeOverallScore ==
    /\ pc = "ar_overall"
    /\ req' = [req EXCEPT !.overall_score =
                OverallScore(req.ats_match_score, req.skill_match_score,
                             req.content_score, req.structure_score)]
    /\ pc' = "ar_improvements"
    /\ UNCHANGED <<modelName, instance, model, constructions, lifespan, gi, got, hres, resp, sc>>

\* a call that is given the similarity score instead
AnalyzeImprovementsAts ==
    /\ pc = "ar_improvements"
    /\ \E ok \in BOOLEAN, ans \in ProfessionalSummaryResponse :
        OracleCall([AfterCall(req, "get_professional_summary_suggestions", ok)
                        EXCEPT !.summary_score = RoundHalfEven(req.ats_match_score, 100)],
                   get_professional_summary_suggestions(ok, ans), "improvements", "ar_respond")
    /\ UNCHANGED <<modelName, instance, model, constructions, lifespan, gi, got, hres, sc>>

\* line 128: the oracle is given round(overall_score)
AnalyzeImprovements ==
    /\ pc = "ar_improvements"
    /\ \E ok \in BOOLEAN, ans \in ProfessionalSummaryResponse :
        OracleCall([AfterCall(req, "get_professional_summary_suggestions", ok)
                        EXCEPT !.summary_score = req.overall_score],
                   get_professional_summary_suggestions(ok, ans), "improvements", "ar_respond")
    /\ UNCHANGED <<modelName, instance, model, constructions, lifespan, gi, got, hres, sc>>

\* lines 130 to 143
AnalyzeRespond ==
    /\ pc = "ar_respond"
    /\ Respond(200,
        [success |-> TRUE,
         overall_score |-> req.overall_score,
         scores |-> [ats_compatibility_score |-> RoundHalfEven(req.ats_match_score, 100),
                     skill_match_score |-> PyRound(req.skill_match_score),
                     content_quality_score |-> req.content_score,
                     structure_score |-> req.structure_score],
         improvements_suggestion |-> req.improvements])
    /\ UNCHANGED <<modelName, instance, model, constructions, lifespan, gi, got, hres, req, sc>>

(***************************************************************************)
(* optimize_skills_endpoint, lines 156 to 166.                             *)
(***************************************************************************)
SkillsExtract ==
    /\ pc = "os_extract"
    /\ ExtractSkillsCall("os_required")
    /\ UNCHANGED <<modelName, instance, model, constructions, lifespan, gi, got, hres, sc>>

SkillsRequired ==
    /\ pc = "os_required"
    /\ RequiredSkillsCall("os_optimize")
    /\ UNCHANGED <<modelName, instance, model, constructions, lifespan, gi, got, hres, sc>>

SkillsOptimize ==
    /\ pc = "os_optimize"
    /\ \E ok \in BOOLEAN, ans \in SkillOptimizationResponse :
        OracleCall(AfterCall(req, "optimize_skills_section", ok),
                   optimize_skills_section(ok, ans), "feedback", "os_respond")
    /\ UNCHANGED <<modelName, instance, model, constructions, lifespan, gi, got, hres, sc>>

SkillsRespond ==
    /\ pc = "os_respond"
    /\ Respond(200, [success |-> TRUE, skills_optimization |-> req.feedback])
    /\ UNCHANGED <<modelName, instance, model, constructions, lifespan, gi, got, hres, req, sc>>

(***************************************************************************)
(* The three feedback endpoints, lines 171 to 201: one oracle client each. *)
(***************************************************************************)
FeedbackClient(endpoint) ==
    CASE endpoint = "optimize_structure_feedback" -> "optimize_structure"
      [] endpoint = "optimize_content_feedback" -> "check_content"
      [] OTHER -> "check_tone_and_style"

FeedbackOf(client, ok, ans) ==
    CASE client = "optimize_structure" -> optimize_structure(ok, ans)
      [] client = "check_content" -> check_content(ok, ans)
      [] OTHER -> check_tone_and_style(ok, ans)

FeedbackBody(endpoint, feedback) ==
    CASE endpoint = "optimize_structure_feedback" ->
            [success |-> TRUE, structure_feedback |-> feedback]
      [] endpoint = "optimize_content_feedback" ->
            [success |-> TRUE, content_feedback |-> feedback]
      [] OTHER -> [success |-> TRUE, tone_style_feedback |-> feedback]

Feedback ==
    /\ pc = "feedback"
    /\ \E ok \in BOOLEAN, ans \in FeedbackResponse :
        LET client == FeedbackClient(req.endpoint) IN
        OracleCall(AfterCall(req, client, ok), FeedbackOf(client, ok, ans),
                   "feedback", "fb_respond")
    /\ UNCHANGED <<modelName, instance, model, constructions, lifespan, gi, got, hres, sc>>

FeedbackRespond ==
    /\ pc = "fb_respond"
    /\ Respond(200, FeedbackBody(req.endpoint, req.feedback))
    /\ UNCHANGED <<modelName, instance, model, constructions, lifespan, gi, got, hres, req, sc>>

\* chain.invoke of the client at this position of a handler: the clients
\* are built by get_llm / ChatGoogleGenerativeAI without a timeout
OracleAt(p, endpoint) ==
    CASE p \in {"ar_extract", "os_extract"} -> "extract_all_skills"
      [] p \in {"ar_required", "os_required"} -> "get_required_skills"
      [] p = "ar_content" -> "get_content_score"
      [] p = "ar_structure" -> "get_structure_score"
      [] p = "ar_improvements" -> "get_professional_summary_suggestions"
      [] p = "os_optimize" -> "optimize_skills_section"
      [] p = "feedback" -> FeedbackClient(endpoint)
      [] OTHER -> "none"

\* The oracle never answers: chain.invoke neither returns nor raises, and
\* the handler stays inside the call.
OracleNeverAnswers ==
    LET client == OracleAt(pc, req.endpoint) IN
    /\ client # "none"
    /\ ~(client = "extract_all_skills" /\ TooShort(req.text))
    /\ req' = [req EXCEPT !.called = @ \cup {client},
                          !.summary_score = IF pc = "ar_improvements"
                                            THEN req.overall_score ELSE @]
    /\ pc' = "blocked"
    /\ UNCHANGED <<modelName, instance, model, constructions, lifespan, gi, got, hres, resp, sc>>

(***************************************************************************)
(* The service: the lifespan start, then the requests and health probes.   *)
(***************************************************************************)
\* One step of the request the event loop is running
Handler ==
    \/ GetInstanceStep(Loop)
    \/ process_uploaded_file
    \/ AnalyzeGetInstance
    \/ AnalyzeGotInstance
    \/ AnalyzeExtractSkills
    \/ AnalyzeRequiredSkills
    \/ AnalyzePartition
    \/ AnalyzeTechScore
    \/ AnalyzeSoftScore
    \/ AnalyzeSkillMatch
    \/ AnalyzeAtsScore
    \/ AnalyzeContentScore
    \/ AnalyzeStructureScore
    \/ AnalyzeQualityScores
    \/ AnalyzeOverallScore
    \/ AnalyzeImprovements
    \/ AnalyzeRespond
    \/ SkillsExtract
    \/ SkillsRequired
    \/ SkillsOptimize
    \/ SkillsRespond
    \/ Feedback
    \/ FeedbackRespond

Serve ==
    \/ \E t \in HealthWorkers : GetInstanceStep(t)
    \/ \E t \in HealthWorkers : HealthCheck(t)
    \/ \E t \in HealthWorkers : HealthCheckReturn(t)
    \/ Receive
    \/ Handler
    \/ OracleNeverAnswers

Next == LifespanStartup \/ LifespanYield \/ Serve

Spec == Init /\ [][Next]_vars

(***************************************************************************)
(* The application driven without its lifespan: the handlers and           *)
(* get_instance called from the state after import.                        *)
(***************************************************************************)
InitNoLifespan ==
    /\ InitCommon
    /\ lifespan = "off"
    /\ pc = "idle"

SpecNoLifespan == InitNoLifespan /\ [][Serve]_vars

(***************************************************************************)
(* The SemanticModel class with its callers alone: from the state after    *)
(* import, line 98 of analyze_resume on the event loop and the health      *)
(* probes on the worker threads go through get_instance.                   *)
(***************************************************************************)
InitSingleton ==
    /\ modelName \in BOOLEAN
    /\ instance = 0
    /\ model = 0
    /\ constructions = 0
    /\ lifespan = "off"
    /\ gi = [t \in Callers |-> "idle"]
    /\ got = [t \in Callers |-> NoCall]
    /\ hres = [t \in HealthWorkers |-> "none"]
    /\ req = [ReqInit EXCEPT !.endpoint = "analyze_resume", !.ext = "pdf",
                             !.extracted = TRUE, !.extract_ok = TRUE, !.text = 60]
    /\ resp = NoResp
    /\ sc = NoScore
    /\ pc = "ar_get_instance"

Singleton ==
    \/ \E t \in Callers : GetInstanceStep(t)
    \/ \E t \in HealthWorkers : HealthCheck(t)
    \/ \E t \in HealthWorkers : HealthCheckReturn(t)
    \/ AnalyzeGetInstance
    \/ AnalyzeGotInstance

SpecSingleton == InitSingleton /\ [][Singleton]_vars

(***************************************************************************)
(* SemanticModel.score as a function: every argument shape, the model      *)
(* loaded or not, every outcome of the embedding library.                  *)
(***************************************************************************)
ScoreArgs == {Str(0), Str(60), List(<<>>), List(<<"python">>), List(<<"python", "sql">>)}

InitScore ==
    /\ modelName = TRUE
    /\ instance = 0
    /\ model = 0
    /\ constructions = 0
    /\ lifespan = "off"
    /\ gi = [t \in Callers |-> "idle"]
    /\ got = [t \in Callers |-> NoCall]
    /\ hres = [t \in HealthWorkers |-> "none"]
    /\ req = ReqInit
    /\ resp = NoResp
    /\ pc = "score"
    /\ \E mdl \in {0, 1}, a \in ScoreArgs, b \in ScoreArgs, enc \in EncOutcomes :
        sc = [NoScore EXCEPT !.mdl = mdl, !.a = a, !.b = b, !.enc = enc]

ScoreApply ==
    /\ pc = "score"
    /\ ~sc.done
    /\ sc' = [sc EXCEPT !.out = Score(sc.mdl, sc.a, sc.b, sc.enc), !.done = TRUE]
    /\ UNCHANGED <<modelName, instance, model, constructions, lifespan, gi, got, hres, pc, req, resp>>

SpecScore == InitScore /\ [][ScoreApply]_vars

(***************************************************************************)
(* Lines 103 to 110 of analyze_resume as a function of the two dicts the   *)
(* extractors returned: every answer of the declared schemas.              *)
(***************************************************************************)
InitPartition ==
    /\ modelName = TRUE
    /\ instance = 1
    /\ model = 1
    /\ constructions = 1
    /\ lifespan = "ready"
    /\ gi = [t \in Callers |-> "idle"]
    /\ got = [t \in Callers |-> IF t = Loop THEN [ok |-> TRUE, inst |-> 1, exc |-> "none"] ELSE NoCall]
    /\ hres = [t \in HealthWorkers |-> "none"]
    /\ resp = NoResp
    /\ sc = NoScore
    /\ pc = "ar_partition"
    /\ \E ok1 \in BOOLEAN, ans1 \in CandidateSkills, ok2 \in BOOLEAN, ans2 \in RequiredSkillsResponse :
        req = [AfterCall(AfterCall(ReqInit, "extract_all_skills", ok1), "get_required_skills", ok2)
                 EXCEPT !.endpoint = "analyze_resume", !.ext = "pdf", !.extracted = TRUE,
                        !.extract_ok = TRUE,
                        !.text = 60, !.scorer = 1,
                        !.res_skill = extract_all_skills(60, ok1, ans1),
                        !.req_skill = get_required_skills(ok2, ans2)]

SpecPartition == InitPartition /\ [][AnalyzePartition]_vars

(***************************************************************************)
(* Properties.                                                             *)
(***************************************************************************)
Finished == pc = "idle" /\ resp.status # 0
Analyzed == Finished /\ req.endpoint = "analyze_resume" /\ resp.status = 200
ValidFile == Supported(req.ext) /\ req.extracted /\ req.text > 0
AnalyzeClients == {"extract_all_skills", "get_required_skills", "get_content_score",
                   "get_structure_score", "get_professional_summary_suggestions"}

\* C1: the overall_score of a completed analyze_resume request is
\* round(0.5*ats + 0.3*(0.75*tech + 0.25*soft) + 0.1*content + 0.1*structure),
\* computed from the scores the similarity engine returned and rounded once.
C1_OverallFromUnrounded ==
    Analyzed =>
        resp.body.overall_score =
            PyRound(FlAdd(FlAdd(FlAdd(
                FlMul(FlOfDecimal(req.ats_match_score, 2), FlOfDecimal(5, 1)),
                FlMul(FlAdd(FlMul(FlOfDecimal(75, 2), FlOfDecimal(req.tech_score, 2)),
                            FlMul(FlOfDecimal(25, 2), FlOfDecimal(req.soft_score, 2))),
                      FlOfDecimal(3, 1))),
                FlMul(FlOfInt(req.content_score), FlOfDecimal(1, 1))),
                FlMul(FlOfInt(req.structure_score), FlOfDecimal(1, 1))))

\* a completed request where rounding the components first gives another score
C1_Witness ==
    /\ Analyzed
    /\ req.ats_match_score = 1235
    /\ resp.body.overall_score #
           Weighted(FlOfInt(resp.body.scores.ats_compatibility_score),
                    FlOfInt(resp.body.scores.skill_match_score),
                    req.content_score, req.structure_score)

\* C2: the overall_score of a completed analyze_resume request is an integer
\* in [0,100], whatever integers the two quality oracles return as score.
C2_OverallInRange ==
    Analyzed => (resp.body.overall_score >= 0 /\ resp.body.overall_score <= 100)

\* C3: a request with a valid file ends with a successful, complete response,
\* whichever of its oracle calls failed.
C3_OracleFailureNeverFailsRequest ==
    (Finished /\ ValidFile) => (resp.status = 200 /\ resp.body.success)

\* an analyze_resume request that ended with 200 although all five oracle calls failed
C3_Witness ==
    /\ Analyzed
    /\ ValidFile
    /\ req.text >= MinSkillTextLen
    /\ req.failed = AnalyzeClients

\* C4: the embedding model is built at most once, and all callers of
\* get_instance obtain the same instance.
C4_SingleConstruction ==
    /\ constructions <= 1
    /\ \A t \in Callers, u \in Callers :
        (got[t].ok /\ got[u].ok) => got[t].inst = got[u].inst

\* C5: score never raises; with the model not loaded, or with the embedding
\* library failing, it returns 0.0.
C5_ScoreNeverRaises ==
    sc.done =>
        /\ sc.out.kind = "return"
        /\ (sc.mdl = 0 \/ sc.enc.at \in {"encode", "cos_sim"}
               \/ (sc.enc.at = "encode_2" /\ sc.a.kind = "list" /\ sc.b.kind = "list")) =>
              sc.out.value = 0

\* score returned 0.0 after encode raised a ValueError on two non-empty lists
C5_Witness ==
    /\ sc.done
    /\ sc.mdl = 1
    /\ sc.a.kind = "list" /\ sc.a.len > 0
    /\ sc.b.kind = "list" /\ sc.b.len > 0
    /\ sc.enc.at = "encode" /\ sc.enc.exc = "ValueError"
    /\ sc.out.kind = "return" /\ sc.out.value = 0 /\ sc.out.encodes = 1

\* C6: when the model is missing while analyze_resume handles a request with a
\* valid file, the request still ends with 200, each similarity score 0.0.
C6_MissingModelNotPropagated ==
    (Finished /\ req.endpoint = "analyze_resume" /\ ValidFile /\ model = 0) =>
        /\ resp.status = 200
        /\ req.tech_score = 0 /\ req.soft_score = 0 /\ req.ats_match_score = 0

\* The value each oracle client of the request returned.
Returned(client) ==
    CASE client = "extract_all_skills" -> req.res_skill
      [] client = "get_required_skills" -> req.req_skill
      [] client = "get_content_score" -> req.content_analysis
      [] client = "get_structure_score" -> req.structure_analysis
      [] client = "get_professional_summary_suggestions" -> req.improvements
      [] OTHER -> req.feedback

\* C7: the value a client returns when its oracle call failed has the fields
\* of the client's declared schema.
C7_DefaultsConformToSchema ==
    \A client \in req.failed : SchemaFields[client] \subseteq DOMAIN Returned(client)

\* C8: score returns a value in [0.0, 100.0], and 0.0 for a negative cosine
\* similarity.
C8_ScoreInRange ==
    sc.done =>
        /\ sc.out.value >= 0 /\ sc.out.value <= 10000
        /\ sc.enc.sim < 0 => sc.out.value = 0

\* score clamped a negative similarity of two texts to 0.0
C8_Witness ==
    /\ sc.done
    /\ sc.mdl = 1
    /\ sc.a.kind = "str" /\ sc.b.kind = "str"
    /\ sc.enc.at = "none" /\ sc.enc.sim < 0
    /\ sc.out.kind = "return" /\ sc.out.value = 0 /\ sc.out.encodes = 1

EmptyList(x) == x.kind = "list" /\ x.len = 0

\* C9: with an empty list as either argument, score returns exactly 0.0 and
\* does not call encode.
C9_EmptyListShortCircuit ==
    (sc.done /\ (EmptyList(sc.a) \/ EmptyList(sc.b))) =>
        /\ sc.out.kind = "return"
        /\ sc.out.value = 0
        /\ sc.out.encodes = 0

\* score with a loaded model, a non-empty list and an empty list
C9_Witness ==
    /\ sc.done
    /\ sc.mdl = 1
    /\ sc.a.kind = "list" /\ sc.a.len > 0
    /\ EmptyList(sc.b)
    /\ sc.enc.at = "none" /\ sc.enc.sim > 0
    /\ sc.out.value = 0 /\ sc.out.encodes = 0

\* The skill list of the first entry tagged tag, the empty list without one.
FirstTagged(skill_sets, tag) ==
    LET tagged == {i \in 1..Len(skill_sets) : skill_sets[i].category = tag} IN
    IF tagged = {} THEN <<>>
    ELSE skill_sets[CHOOSE i \in tagged : \A j \in tagged : i <= j].skills

\* C10: in analyze_resume the technical phrase list is the skill list of the
\* first skill_sets entry tagged exactly "TECHNICAL", the empty list without
\* one; later entries and other tags are not used.  The same for "SOFT".
C10_FirstMatchPerTag ==
    pc = "ar_tech_score" =>
        /\ req.tech_input = FirstTagged(req.res_skill.skill_sets, "TECHNICAL")
        /\ req.soft_input = FirstTagged(req.res_skill.skill_sets, "SOFT")

\* two TECHNICAL entries with different lists: the first one is the input
C10_Witness ==
    /\ pc = "ar_tech_score"
    /\ Len(req.res_skill.skill_sets) = 2
    /\ req.res_skill.skill_sets[1].category = "TECHNICAL"
    /\ req.res_skill.skill_sets[2].category = "TECHNICAL"
    /\ req.res_skill.skill_sets[1].skills = <<"python">>
    /\ req.res_skill.skill_sets[2].skills = <<"sql">>
    /\ req.tech_input = <<"python">>
    /\ req.soft_input = <<>>

\* C11: an upload with a supported extension whose extracted text is empty
\* (the file has no text, or the extraction failed) is answered with 400, and
\* no oracle client, no get_instance and no score call is made for it.
C11_EmptyTextRejected ==
    (Supported(req.ext) /\ req.extracted /\ req.text = 0) =>
        /\ pc = "idle"
        /\ resp.status = 400
        /\ req.called = {}
        /\ req.score_calls = 0
        /\ req.scorer = 0

\* an analyze_resume request rejected after the extraction of its .docx failed
C11_Witness ==
    /\ Finished
    /\ req.endpoint = "analyze_resume"
    /\ req.ext = "docx"
    /\ req.extracted /\ ~req.extract_ok
    /\ req.text = 0
    /\ resp.status = 400

\* C12: on every endpoint, a file whose name ends neither in .pdf nor in
\* .docx is answered with 400 by the first step of the request: no text is
\* extracted, no oracle client, no get_instance and no score call is made.
C12_UnsupportedRejectedFirst ==
    (req.endpoint \in Endpoints /\ req.ext \notin {"pdf", "docx"}) =>
        /\ pc \in {"file", "idle"}
        /\ pc = "idle" => resp.status = 400
        /\ ~req.extracted
        /\ req.called = {}
        /\ req.score_calls = 0
        /\ req.scorer = 0

\* a .txt file sent to optimize_skills and rejected
C12_Witness ==
    /\ Finished
    /\ req.endpoint = "optimize_skills"
    /\ req.ext = "txt"
    /\ resp.status = 400
    /\ resp.body.detail = "Unsupported File Format"

\* What the service has done for its clients so far: nothing.
NothingServed ==
    /\ req = ReqInit
    /\ resp = NoResp
    /\ \A t \in HealthWorkers : hres[t] = "none" /\ gi[t] = "idle"

\* C13: the application serves (accepts requests, answers health probes)
\* only after get_instance succeeded in lifespan; when it failed the start
\* is aborted, nothing is ever served and no probe is answered model_ready.
C13_FailedStartupNeverServes ==
    /\ lifespan = "ready" => (got[Loop].ok /\ instance # 0 /\ model # 0)
    /\ lifespan = "aborted" => (pc = "exit" /\ ~got[Loop].ok)
    /\ lifespan # "ready" => NothingServed

\* the start aborted after SentenceTransformer(...) raised
C13_Witness ==
    /\ lifespan = "aborted"
    /\ pc = "exit"
    /\ modelName
    /\ got[Loop].exc = "RuntimeError"
    /\ model = 0
    /\ NothingServed

\* The handler is inside a call that blocks its thread: chain.invoke of an
\* oracle client, or SemanticModel.score.
AtBlockingCall ==
    \/ OracleAt(pc, req.endpoint) # "none"
    \/ pc \in {"ar_tech_score", "ar_soft_score", "ar_ats_score"}
    \/ pc = "blocked"

\* C14: while the request being handled is inside an oracle call or a score
\* call, the handler of another request can be started.
C14_OthersProgress ==
    AtBlockingCall => ENABLED Receive

\* C15: in analyze_resume no score is computed before extract_all_skills and
\* get_required_skills have both returned, and
\* get_professional_summary_suggestions is called after the three score
\* calls, with the overall_score computed from them.
C15_AnalyzeOrder ==
    req.endpoint = "analyze_resume" =>
        /\ (req.score_calls > 0 \/ req.skill_match_score # FlZero \/ req.overall_score # 0) =>
              (req.res_skill # NoDict /\ req.req_skill # NoDict)
        /\ "get_professional_summary_suggestions" \in req.called =>
              /\ req.score_calls = 3
              /\ {"get_content_score", "get_structure_score"} \subseteq req.called
              /\ req.summary_score = req.overall_score
        /\ req.improvements # NoDict =>
              "get_professional_summary_suggestions" \in req.called

\* a completed request whose feedback call was given an overall_score that
\* differs from the rounded similarity score
C15_Witness ==
    /\ Analyzed
    /\ {"extract_all_skills", "get_required_skills",
        "get_professional_summary_suggestions"} \subseteq req.called
    /\ req.score_calls = 3
    /\ req.overall_score > 0
    /\ req.summary_score = req.overall_score
    /\ req.summary_score # RoundHalfEven(req.ats_match_score, 100)

\* A request is being handled.
InFlight == pc \notin {"startup", "startup_load", "exit", "idle", "score"}

\* C16: a request with a valid file that is being handled can always take
\* its next step: no oracle call keeps the handler waiting without end.
C16_OracleCallsBounded ==
    (InFlight /\ ValidFile) => ENABLED Handler

\* C17: whenever _instance is set _model is loaded, so every instance
\* get_instance returned scores with a model; a construction whose load
\* failed leaves _instance unset.
C17_InstanceImpliesModel ==
    /\ instance # 0 => model # 0
    /\ \A t \in Callers : got[t].ok => (got[t].inst # 0 /\ model # 0)
    /\ req.scorer # 0 => model # 0
    /\ \A t \in Callers : (gi[t] = "done" /\ got[t].exc = "RuntimeError") =>
          (instance = 0 \/ model # 0)

\* the load failed inside a health probe, and analyze_resume got an
\* instance with a model from a get_instance that built it
C17_Witness ==
    /\ \E t \in HealthWorkers :
          got[t].exc = "RuntimeError" /\ hres[t] = "not_ready"
    /\ constructions = 1
    /\ instance = 1 /\ model = 1
    /\ pc = "ar_extract"
    /\ got[Loop].ok
    /\ req.scorer = 1

\* C18: with an extracted text of 1 to 49 characters, extract_all_skills
\* returns an empty skill_sets without its oracle call, tech_score,
\* soft_score and skill_match_score are 0.0, and the request ends with 200.
C18_ShortTextScoresZero ==
    (req.endpoint = "analyze_resume" /\ req.extracted
        /\ req.text > 0 /\ req.text < MinSkillTextLen) =>
        /\ "extract_all_skills" \notin req.called
        /\ req.res_skill # NoDict => req.res_skill.skill_sets = <<>>
        /\ req.tech_input = <<>> /\ req.soft_input = <<>>
        /\ req.tech_score = 0 /\ req.soft_score = 0 /\ req.skill_match_score = FlZero
        /\ Finished =>
              /\ resp.status = 200
              /\ resp.body.scores.skill_match_score = 0

\* a completed request on a 20-character resume against non-empty requirements
C18_Witness ==
    /\ Analyzed
    /\ req.text = 20
    /\ req.res_skill.skill_sets = <<>>
    /\ req.req_tech_skill # <<>>
    /\ req.score_calls = 3
    /\ req.tech_score = 0 /\ req.soft_score = 0
    /\ resp.body.scores.skill_match_score = 0
    /\ resp.body.overall_score > 0

====
